---- MODULE Spec2Model ----
(***************************************************************************)
(* django-etl-sync: the Transformer pipeline (etl_sync/transformations.py), *)
(* the Loader run loop (etl_sync/loaders.py), the StdoutLogger and its     *)
(* Counter (etl_sync/logging.py) and CaseInsensitiveDict                   *)
(* (etl_sync/types.py).                                                    *)
(*                                                                         *)
(* Representation of Python values:                                        *)
(*   str   [t |-> "str",  s |-> <<chars>>]                                 *)
(*   None  [t |-> "none", s |-> <<>>]                                      *)
(*   dict  [t |-> "dict", s |-> <<>>, d |-> D]                             *)
(*   collections.defaultdict: the same with t |-> "defaultdict"            *)
(* A dictionary D is a sequence of <<key, value>> pairs with distinct keys *)
(* in insertion order.  A key is the sequence of the '.'-separated         *)
(* segments of the Python string, so 'a.b' is <<"a", "b">> and splitting   *)
(* and joining on '.' are SubSeq and \o.                                   *)
(***************************************************************************)
EXTENDS Integers, Sequences, FiniteSets, TLC

VARIABLES
    \* ---- Transformer.is_valid / full_transform on one record ----
    t_cfg,        \* class attributes: mappings, defaults, blacklist, forms
    t_raw,        \* self.dic, the record given to __init__
    t_given,      \* t_raw as it was when it was given (history of t_raw)
    t_pc,         \* position inside is_valid / full_transform
    t_last,       \* the stage of full_transform that ran last
    t_dic,        \* the local `dic` of full_transform
    t_remapped,   \* the value remap returned (history of t_dic)
    t_error,      \* self.error; "none" for the initial None
    t_raised,     \* exception that left is_valid; "none" if none
    \* ---- Loader.load ----
    source,       \* the units the reader yields, in order
    slice_begin,  \* Loader.slice_begin
    slice_end,    \* Loader.slice_end (0 stands for None)
    feedbacksize, \* Loader.feedbacksize
    pc,           \* position inside load()
    cursor,       \* number of units the reader has yielded so far
    counter,      \* the FeedbackCounter: counter, rejected, created, updated
    csv_dic,      \* the record in flight
    load_dic,     \* the local `dic` of load(): cleaned_data of that record
    outcome,      \* per yielded unit: what it was and what load() did with
                  \* it ("<what>:rejected" logged and counted, "<what>:escaped"
                  \* an exception left load() instead)
    logged,       \* lines written through Logger.log
    hooks,        \* arguments of the feedback_hook calls, in order
    raised,       \* exception that left load(); "none" if none
    result,       \* return value of load(); "none" before it returns
    \* ---- Transformer.__init__ / _flatten_mappings ----
    m_spec,       \* the class attribute `mappings`, possibly nested
    m_given,      \* m_spec as the class was written (history of m_spec)
    m_table,      \* the instance attribute self.mappings set by __init__
    m_again,      \* what a second self._flatten_mappings() returned
    m_pc,         \* "new", "built", "rebuilt" or "raised"
    m_raised,     \* exception that left _flatten_mappings; "none" if none
    \* ---- logging.StdoutLogger and its Counter ----
    s_pc,         \* "new", "started" or "finished"
    s_counter,    \* self.counter: pos, rejected, created, updated
    s_handled,    \* number of records the caller has reported so far
    s_printed,    \* the lines printed, in order
    \* ---- types.CaseInsensitiveDict ----
    d_pc,         \* "new", "ready", or "failed" when __init__ raised
    d_arg,        \* the arguments of the constructor call to come
    d_items,      \* the entries the dict holds
    d_ret,        \* the last call: its name, exception and return value
    d_ops         \* number of calls after construction

tvars == <<t_cfg, t_raw, t_given, t_pc, t_last, t_dic, t_remapped, t_error,
           t_raised>>
lvars == <<source, slice_begin, slice_end, feedbacksize, pc, cursor, counter,
           csv_dic, load_dic, outcome, logged, hooks, raised, result>>
mvars == <<m_spec, m_given, m_table, m_again, m_pc, m_raised>>
\* the variables of the other classes, which neither is_valid nor load touch
svars == <<s_pc, s_counter, s_handled, s_printed>>
dvars == <<d_pc, d_arg, d_items, d_ret, d_ops>>
ovars == <<mvars, svars, dvars>>
vars == <<tvars, lvars, ovars>>

-----------------------------------------------------------------------------
(* Python values *)

Str(s) == [t |-> "str", s |-> s]
None == [t |-> "none", s |-> <<>>]
DictVal(d) == [t |-> "dict", s |-> <<>>, d |-> d]
\* a dict that the caller holds too: id stands for the identity of the
\* object, so that a store into it can be seen through every reference
SharedDict(id, d) == [t |-> "dict", s |-> <<>>, d |-> d, id |-> id]
HasId(v) == "id" \in DOMAIN v
\* isinstance(v, dict)
IsDict(v) == v.t \in {"dict", "defaultdict"}

(* dict operations; d is a sequence of <<key, value>> *)
Keys(d) == {d[i][1] : i \in DOMAIN d}
Has(d, k) == \E i \in DOMAIN d : d[i][1] = k
Get(d, k) == d[CHOOSE i \in DOMAIN d : d[i][1] = k][2]
SetItem(d, k, v) ==
    IF Has(d, k)
    THEN [i \in DOMAIN d |-> IF d[i][1] = k THEN <<k, v>> ELSE d[i]]
    ELSE Append(d, <<k, v>>)
DelItem(d, k) == SelectSeq(d, LAMBDA e : e[1] # k)

RECURSIVE UpdateFrom(_, _, _)
UpdateFrom(d, e, i) ==
    IF i > Len(e) THEN d
    ELSE UpdateFrom(SetItem(d, e[i][1], e[i][2]), e, i + 1)
\* dict.update(e)
Update(d, e) == UpdateFrom(d, e, 1)

\* Python truth value of a value
Truthy(v) ==
    CASE v.t = "str" -> v.s # <<>>
      [] v.t = "none" -> FALSE
      [] IsDict(v) -> v.d # <<>>

\* results of a step that may raise
Ok(v) == [exc |-> "none", val |-> v]
Raise(e) == [exc |-> e, val |-> <<>>]

-----------------------------------------------------------------------------
(* etl_sync/transformations.py: class Transformer *)

\* re.match(v, s) for the patterns of the model: a literal, optionally
\* followed by '$'.  re.match anchors at the start of the string only.
re_match(v, s) ==
    /\ Len(v.lit) <= Len(s)
    /\ SubSeq(s, 1, Len(v.lit)) = v.lit
    /\ (v.anchored => Len(s) = Len(v.lit))

RECURSIVE remap_from(_, _, _, _)
remap_from(mappings, dic, data, i) ==
    IF i > Len(mappings) THEN Ok(data)
    ELSE LET key == mappings[i][1]
             m_key == mappings[i][2]
         IN  IF ~Has(dic, m_key) THEN Raise("KeyError")
             ELSE LET assigned == SetItem(data, key, Get(dic, m_key))
                      deleted == IF m_key # key
                                 THEN DelItem(assigned, m_key)
                                 ELSE assigned
                  IN  remap_from(mappings, dic, deleted, i + 1)

\* Transformer.remap: data = dic.copy(), then one pass over self.mappings
remap(mappings, dic) == remap_from(mappings, dic, dic, 1)

\* the variant that fills a field only when the record lacks it
apply_defaults_fill(defaults, dictionary) ==
    IF defaults.type = "dict"
    THEN Ok(Update(defaults.items, dictionary))
    ELSE Ok(dictionary)

\* Transformer._apply_defaults: dictionary.update(self.defaults.copy())
\* when type(self.defaults) is dict, nothing otherwise
_apply_defaults(defaults, dictionary) ==
    IF defaults.type = "dict"
    THEN Ok(Update(dictionary, defaults.items))
    ELSE Ok(dictionary)

\* the inner loop of check_blacklist over the patterns of one key
RECURSIVE check_patterns(_, _, _, _)
check_patterns(value, key, dic, j) ==
    IF j > Len(value) THEN Ok(<<>>)
    ELSE IF ~Has(dic, key) THEN Raise("KeyError")
    ELSE IF Get(dic, key).t # "str"
         THEN [exc |-> "ValidationError", val |-> "Black list test failed"]
    ELSE IF re_match(value[j], Get(dic, key).s)
         THEN [exc |-> "ValidationError", val |-> "Value not allowed"]
    ELSE check_patterns(value, key, dic, j + 1)

RECURSIVE check_blacklist_from(_, _, _)
check_blacklist_from(blacklist, dic, i) ==
    IF i > Len(blacklist) THEN Ok(<<>>)
    ELSE LET r == check_patterns(blacklist[i][2], blacklist[i][1], dic, 1)
         IN  IF r.exc # "none" THEN r
             ELSE check_blacklist_from(blacklist, dic, i + 1)

\* Transformer.check_blacklist
check_blacklist(blacklist, dic) == check_blacklist_from(blacklist, dic, 1)

\* p = data; for n in parts[:-1]: p = p[n]; p[parts[-1]] = value
\* kind is the class of the mapping p: a defaultdict creates a missing
\* entry on lookup, a dict raises KeyError
RECURSIVE insert_path(_, _, _, _)
insert_path(kind, p, parts, value) ==
    IF Len(parts) = 1 THEN Ok(SetItem(p, parts, value))
    ELSE LET n == <<parts[1]>>
             rest == SubSeq(parts, 2, Len(parts))
         IN  IF ~Has(p, n)
             THEN IF kind = "defaultdict"
                  THEN LET r == insert_path("defaultdict", <<>>, rest, value)
                       IN  IF r.exc # "none" THEN r
                           ELSE Ok(SetItem(p, n,
                                    [t |-> "defaultdict", s |-> <<>>,
                                     d |-> r.val]))
                  ELSE Raise("KeyError")
             ELSE LET v == Get(p, n)
                  IN  IF IsDict(v)
                      THEN LET r == insert_path(v.t, v.d, rest, value)
                           IN  IF r.exc # "none" THEN r
                               ELSE Ok(SetItem(p, n, [v EXCEPT !.d = r.val]))
                      ELSE Raise("TypeError")

RECURSIVE remap_relations_from(_, _, _)
remap_relations_from(dic, data, i) ==
    IF i > Len(dic) THEN Ok(data)
    ELSE LET r == insert_path("defaultdict", data, dic[i][1], dic[i][2])
         IN  IF r.exc # "none" THEN r
             ELSE remap_relations_from(dic, r.val, i + 1)

\* data as the loop of _remap_relations leaves it, on return or when an
\* insertion raises
RECURSIVE remap_relations_reached(_, _, _)
remap_relations_reached(dic, data, i) ==
    IF i > Len(dic) THEN data
    ELSE LET r == insert_path("defaultdict", data, dic[i][1], dic[i][2])
         IN  IF r.exc # "none" THEN data
             ELSE remap_relations_reached(dic, r.val, i + 1)

\* the dictionary objects with identity id that are somewhere in d
RECURSIVE objects_in(_, _)
objects_in(d, id) ==
    UNION {IF ~IsDict(d[i][2]) THEN {}
           ELSE (IF HasId(d[i][2]) /\ d[i][2].id = id THEN {d[i][2]} ELSE {})
                \cup objects_in(d[i][2].d, id)
           : i \in DOMAIN d}

\* the record whose nested dictionaries are also held by data: each of
\* them has the content that it has in data
shared_after(raw, data) ==
    [i \in DOMAIN raw |->
        LET v == raw[i][2]
        IN  IF HasId(v) /\ objects_in(data, v.id) # {}
            THEN <<raw[i][1], CHOOSE o \in objects_in(data, v.id) : TRUE>>
            ELSE raw[i]]

\* Transformer._remap_relations
_remap_relations(dic) == remap_relations_from(dic, <<>>, 1)

RECURSIVE clean_dic(_)
clean_dic(d) ==
    IF d = <<>> THEN <<>>
    ELSE LET n == d[1][1]
             v0 == d[1][2]
             v == IF IsDict(v0)
                  THEN DictVal(clean_dic(v0.d))
                  ELSE v0
             tail == clean_dic(Tail(d))
         IN  IF Truthy(v) THEN <<(<<n, v>>)>> \o tail ELSE tail

\* Transformer._clean_relations
_clean_relations(dic) == Ok(clean_dic(dic))

\* A form class is held as what its instance says of the data it is
\* given: is_valid(), cleaned_data and errors (field name -> messages).
\* Transformer._process_forms from entry i of self.forms on; the name ''
\* is <<>>.  form_dic is the object stored in dic, so form_dic.update
\* changes dic; a form_dic that is no mapping has no update.
RECURSIVE process_forms_from(_, _, _, _)
process_forms_from(forms, dic, errors, i) ==
    IF i > Len(forms)
    THEN IF errors # <<>>
         THEN [exc |-> "ValidationError", val |-> errors]
         ELSE Ok(dic)
    ELSE LET field_name == forms[i][1]
             frm == forms[i][2]
         IN  IF field_name # <<>> /\ ~Has(dic, field_name)
             THEN process_forms_from(forms, dic, errors, i + 1)
             ELSE IF ~frm.is_valid
             THEN process_forms_from(forms, dic, Update(errors, frm.errors),
                                     i + 1)
             ELSE IF field_name = <<>>
             THEN process_forms_from(forms, Update(dic, frm.cleaned_data),
                                     errors, i + 1)
             ELSE LET form_dic == Get(dic, field_name)
                  IN  IF ~IsDict(form_dic) THEN Raise("AttributeError")
                      ELSE process_forms_from(forms,
                             SetItem(dic, field_name,
                                     [form_dic EXCEPT !.d =
                                        Update(form_dic.d, frm.cleaned_data)]),
                             errors, i + 1)

\* Transformer._process_forms
_process_forms(forms, dic) == process_forms_from(forms, dic, <<>>, 1)

\* Transformer.transform
transform(dic) == Ok(dic)

\* Transformer.validate
validate(dic) == Ok(<<>>)

\* Transformer.full_transform; the first exception ends it
full_transform(cfg, dic) ==
    LET r1 == remap(cfg.mappings, dic) IN
    IF r1.exc # "none" THEN r1 ELSE
    LET r2 == _apply_defaults(cfg.defaults, r1.val) IN
    IF r2.exc # "none" THEN r2 ELSE
    LET r3 == check_blacklist(cfg.blacklist, r2.val) IN
    IF r3.exc # "none" THEN r3 ELSE
    LET r4 == _remap_relations(r2.val) IN
    IF r4.exc # "none" THEN r4 ELSE
    LET r5 == _clean_relations(r4.val) IN
    IF r5.exc # "none" THEN r5 ELSE
    LET r6 == _process_forms(cfg.forms, r5.val) IN
    IF r6.exc # "none" THEN r6 ELSE
    LET r7 == transform(r6.val) IN
    IF r7.exc # "none" THEN r7 ELSE
    LET r8 == validate(r7.val) IN
    IF r8.exc # "none" THEN r8 ELSE r7

\* Transformer.is_valid: ret is the returned boolean; exc is the exception
\* that the except clause (ValidationError, UnicodeEncodeError) lets through
is_valid(cfg, dic) ==
    LET r == full_transform(cfg, dic)
    IN  IF r.exc = "none"
        THEN [ret |-> TRUE, cleaned_data |-> r.val, error |-> "none",
              exc |-> "none"]
        ELSE IF r.exc \in {"ValidationError", "UnicodeEncodeError"}
        THEN [ret |-> FALSE, cleaned_data |-> <<>>, error |-> r.val,
              exc |-> "none"]
        ELSE [ret |-> FALSE, cleaned_data |-> <<>>, error |-> "none",
              exc |-> r.exc]

\* with_prefix without the test of prefix: '%s.%s' % (None, n)
with_prefix_always(prefix, n) ==
    IF prefix # <<>> THEN prefix \o n ELSE <<"None">> \o n

\* with_prefix of _flatten_mappings; prefix None is <<>>
with_prefix(prefix, n) ==
    IF prefix # <<>> THEN prefix \o n ELSE n

\* depth of calls at which the interpreter raises RecursionError
RecursionLimit == 6

\* Transformer._flatten_mappings(prefix, dic) from item i on, res being the
\* result so far; self_mappings is self.mappings.  A nested value that is
\* an empty dictionary is falsy, so `dic or self.mappings` makes the nested
\* call work on self.mappings again.  Names are held as segment sequences
\* in Str values.
RECURSIVE flatten_from(_, _, _, _, _, _)
flatten_from(self_mappings, prefix, dic, i, res, depth) ==
    IF depth > RecursionLimit THEN Raise("RecursionError")
    ELSE IF i > Len(dic) THEN Ok(res)
    ELSE LET k == dic[i][1]
             v == dic[i][2]
         IN  IF IsDict(v)
             THEN LET nested == IF v.d # <<>> THEN v.d ELSE self_mappings
                      r == flatten_from(self_mappings, with_prefix(prefix, k),
                                        nested, 1, <<>>, depth + 1)
                  IN  IF r.exc # "none" THEN r
                      ELSE flatten_from(self_mappings, prefix, dic, i + 1,
                                        Update(res, r.val), depth)
             ELSE flatten_from(self_mappings, prefix, dic, i + 1,
                               SetItem(res, with_prefix(prefix, k), v), depth)

\* self._flatten_mappings(): prefix=None, dic=None
_flatten_mappings(self_mappings) ==
    flatten_from(self_mappings, <<>>, self_mappings, 1, <<>>, 1)

-----------------------------------------------------------------------------
(* Inputs of the model *)

\* most fields of a raw record
MaxFields == 2
\* most entries of each of mappings, defaults and blacklist
MaxEntries == 2

FieldNames == {<<"a">>, <<"b">>}
RawValues == {Str(<<>>), Str(<<"x">>), None}
DefaultValues == {Str(<<>>), Str(<<"d">>)}
\* the regular expressions '^$' and 'x'
PatternEmpty == [lit |-> <<>>, anchored |-> TRUE]
PatternX == [lit |-> <<"x">>, anchored |-> FALSE]
PatternLists == {<<>>, <<PatternEmpty>>, <<PatternX>>}

\* the dictionaries with at most n entries, keys from K, values from V,
\* in every insertion order
RECURSIVE DictsOver(_, _, _)
DictsOver(K, V, n) ==
    IF n = 0 \/ K = {} THEN {<<>>}
    ELSE {<<>>} \cup
         UNION {{<<(<<k, v>>)>> \o d : d \in DictsOver(K \ {k}, V, n - 1)}
                : <<k, v>> \in K \X V}

RawRecords == DictsOver(FieldNames, RawValues, MaxFields)
Configs ==
    [mappings : DictsOver(FieldNames, FieldNames, MaxEntries),
     defaults : [type : {"dict"},
                 items : DictsOver(FieldNames, DefaultValues, MaxEntries)],
     blacklist : DictsOver(FieldNames, PatternLists, MaxEntries),
     forms : {<<>>}]

-----------------------------------------------------------------------------
(* Transformer(dic).is_valid(), one stage of full_transform per step *)

TInit ==
    /\ t_cfg \in Configs
    /\ t_raw \in RawRecords
    /\ t_given = t_raw
    /\ t_pc = "remap"
    /\ t_last = "none"
    /\ t_dic = t_raw
    /\ t_remapped = <<>>
    /\ t_error = "none"
    /\ t_raised = "none"

\* what is_valid does with the outcome r of a stage: go on, or record a
\* ValidationError / UnicodeEncodeError and return False, or let the
\* exception through
TStage(r, next, newdic) ==
    /\ t_last' = t_pc
    /\ t_pc' = IF r.exc = "none" THEN next
               ELSE IF r.exc \in {"ValidationError", "UnicodeEncodeError"}
                    THEN "false"
                    ELSE "raised"
    /\ t_dic' = IF r.exc = "none" THEN newdic ELSE t_dic
    /\ t_error' = IF r.exc \in {"ValidationError", "UnicodeEncodeError"}
                  THEN r.val ELSE t_error
    /\ t_raised' = IF r.exc \notin {"none", "ValidationError",
                                    "UnicodeEncodeError"}
                   THEN r.exc ELSE t_raised
    /\ UNCHANGED <<t_cfg, t_given>>
    /\ UNCHANGED <<lvars, ovars>>

TRemap ==
    /\ t_pc = "remap"
    /\ LET r == remap(t_cfg.mappings, t_dic)
       IN  /\ TStage(r, "defaults", r.val)
           /\ t_remapped' = IF r.exc = "none" THEN r.val ELSE t_remapped
    /\ UNCHANGED t_raw

TApplyDefaults ==
    /\ t_pc = "defaults"
    /\ LET r == _apply_defaults(t_cfg.defaults, t_dic)
       IN  TStage(r, "blacklist", r.val)
    /\ UNCHANGED <<t_remapped, t_raw>>

TCheckBlacklist ==
    /\ t_pc = "blacklist"
    /\ TStage(check_blacklist(t_cfg.blacklist, t_dic), "relations", t_dic)
    /\ UNCHANGED <<t_remapped, t_raw>>

\* remap copies the record with dic.copy() (line 96), which shares the
\* nested dictionaries of the record with t_dic: what _remap_relations
\* stores into one of them is stored into the record
TRemapRelations ==
    /\ t_pc = "relations"
    /\ LET r == _remap_relations(t_dic)
       IN  TStage(r, "clean", r.val)
    /\ t_raw' = shared_after(t_raw, remap_relations_reached(t_dic, <<>>, 1))
    /\ UNCHANGED t_remapped

TCleanRelations ==
    /\ t_pc = "clean"
    /\ LET r == _clean_relations(t_dic)
       IN  TStage(r, "forms", r.val)
    /\ UNCHANGED <<t_remapped, t_raw>>

TProcessForms ==
    /\ t_pc = "forms"
    /\ LET r == _process_forms(t_cfg.forms, t_dic)
       IN  TStage(r, "transform", r.val)
    /\ UNCHANGED <<t_remapped, t_raw>>

TTransform ==
    /\ t_pc = "transform"
    /\ LET r == transform(t_dic)
       IN  TStage(r, "validate", r.val)
    /\ UNCHANGED <<t_remapped, t_raw>>

\* validate, then is_valid stores cleaned_data (t_dic) and returns True
TValidate ==
    /\ t_pc = "validate"
    /\ TStage(validate(t_dic), "true", t_dic)
    /\ UNCHANGED <<t_remapped, t_raw>>

-----------------------------------------------------------------------------
(* is_valid on records with dotted field names and a nested dictionary *)

RelationNames == {<<"a">>, <<"a", "b">>, <<"a", "c">>}
\* the nested value {'c': 'x'}, an object the caller of Transformer holds
NestedValue == SharedDict(1, <<(<<(<<"c">>), Str(<<"x">>)>>)>>)
RelationValues == RawValues \cup {NestedValue}
RelationRecords ==
    {r \in DictsOver(RelationNames, RelationValues, MaxFields) :
        Cardinality({i \in DOMAIN r : HasId(r[i][2])}) <= 1}
\* mappings = {} or {'a.c': 'a'}, no defaults, no blacklist
RelationConfigs ==
    [mappings : DictsOver({<<"a", "c">>}, {<<"a">>}, 1),
     defaults : [type : {"dict"}, items : {<<>>}],
     blacklist : {<<>>},
     forms : {<<>>}]

RInit ==
    /\ t_cfg \in RelationConfigs
    /\ t_raw \in RelationRecords
    /\ t_given = t_raw
    /\ t_pc = "remap"
    /\ t_last = "none"
    /\ t_dic = t_raw
    /\ t_remapped = <<>>
    /\ t_error = "none"
    /\ t_raised = "none"

-----------------------------------------------------------------------------
(* is_valid with forms *)

\* form classes: one that accepts and cleans to {'g': 'c'}, and three that
\* refuse, with the errors {'f': ['e1']}, {'f': ['e2']} and {'h': ['e1']}
GoodForm(cleaned_data) ==
    [is_valid |-> TRUE, cleaned_data |-> cleaned_data, errors |-> <<>>]
BadForm(errors) ==
    [is_valid |-> FALSE, cleaned_data |-> <<>>, errors |-> errors]
FormClasses ==
    {GoodForm(<<(<<(<<"g">>), Str(<<"c">>)>>)>>),
     BadForm(<<(<<(<<"f">>), <<"e1">> >>)>>),
     BadForm(<<(<<(<<"f">>), <<"e2">> >>)>>),
     BadForm(<<(<<(<<"h">>), <<"e1">> >>)>>)}
\* the names '', 'a' and 'a.b' of the comment at line 14
FormNames == {<<>>, <<"a">>, <<"a", "b">>}
FormConfigs ==
    [mappings : {<<>>},
     defaults : [type : {"dict"}, items : {<<>>}],
     blacklist : {<<>>},
     forms : DictsOver(FormNames, FormClasses, MaxEntries)]
FormRecordNames == {<<"a">>, <<"a", "c">>, <<"a", "b", "c">>}
FormRecords == DictsOver(FormRecordNames, RawValues, MaxFields)

FInit ==
    /\ t_cfg \in FormConfigs
    /\ t_raw \in FormRecords
    /\ t_given = t_raw
    /\ t_pc = "remap"
    /\ t_last = "none"
    /\ t_dic = t_raw
    /\ t_remapped = <<>>
    /\ t_error = "none"
    /\ t_raised = "none"

-----------------------------------------------------------------------------
(* Transformer.__init__ and a second self._flatten_mappings() *)

\* source names of the rename specifications
SourceNames == {Str(<<"x">>), Str(<<"y">>)}
\* flat specifications, and specifications with one level of nesting
FlatSpecs == DictsOver(FieldNames, SourceNames, MaxEntries)
NestedSpecs ==
    DictsOver(FieldNames, SourceNames \cup {DictVal(d) : d \in FlatSpecs},
              MaxEntries)

MInit ==
    /\ m_spec \in NestedSpecs
    /\ m_given = m_spec
    /\ m_table = <<>>
    /\ m_again = <<>>
    /\ m_pc = "new"
    /\ m_raised = "none"

MIdle ==
    /\ m_spec = <<>>
    /\ m_given = <<>>
    /\ m_table = <<>>
    /\ m_again = <<>>
    /\ m_pc = "idle"
    /\ m_raised = "none"

\* line 27: self.mappings = self._flatten_mappings(); the class attribute
\* is read, never assigned
MBuild ==
    /\ m_pc = "new"
    /\ LET r == _flatten_mappings(m_spec)
       IN  /\ m_table' = IF r.exc = "none" THEN r.val ELSE m_table
           /\ m_pc' = IF r.exc = "none" THEN "built" ELSE "raised"
           /\ m_raised' = r.exc
    /\ m_spec' = m_spec
    /\ UNCHANGED <<m_given, m_again, tvars, lvars, svars, dvars>>

\* self._flatten_mappings() on the instance: self.mappings is now m_table
MBuildAgain ==
    /\ m_pc = "built"
    /\ LET r == _flatten_mappings(m_table)
       IN  /\ m_again' = IF r.exc = "none" THEN r.val ELSE m_again
           /\ m_pc' = IF r.exc = "none" THEN "rebuilt" ELSE "raised"
           /\ m_raised' = r.exc
    /\ m_spec' = m_spec
    /\ UNCHANGED <<m_given, m_table, tvars, lvars, svars, dvars>>

TIdle ==
    /\ t_raw = <<>>
    /\ t_given = <<>>
    /\ t_pc = "idle"
    /\ t_last = "none"
    /\ t_dic = <<>>
    /\ t_remapped = <<>>
    /\ t_error = "none"
    /\ t_raised = "none"

-----------------------------------------------------------------------------
(* etl_sync/logging.py: Counter, BaseLogger, StdoutLogger *)

\* Counter.__init__ (the times are left out)
Counter == [pos |-> 1, rejected |-> 0, created |-> 0, updated |-> 0]
\* Counter.next, create, update, reject
c_next(c) == [c EXCEPT !.pos = @ + 1]
c_create(c) == c_next([c EXCEPT !.created = @ + 1])
c_update(c) == c_next([c EXCEPT !.updated = @ + 1])
c_reject(c) == c_next([c EXCEPT !.rejected = @ + 1])

\* GenerationStatus
GenerationStatus == {"updated", "exists", "created"}
\* BaseLogger.accept
accept(c, action) ==
    IF action = "created" THEN c_create(c)
    ELSE IF action = "updated" THEN c_update(c)
    ELSE c_next(c)

\* the messages a caller rejects with
Messages == {"bad", "worse"}
\* number of records reported to one logger
MaxLogged == 4

\* BaseLogger.__init__: self.counter = None
SInit ==
    /\ s_pc = "new"
    /\ s_counter = "none"
    /\ s_handled = 0
    /\ s_printed = <<>>

SIdle ==
    /\ s_pc = "idle"
    /\ s_counter = "none"
    /\ s_handled = 0
    /\ s_printed = <<>>

SOthers == <<tvars, lvars, mvars, dvars>>

\* BaseLogger.start
SStart ==
    /\ s_pc = "new"
    /\ s_pc' = "started"
    /\ s_counter' = Counter
    /\ UNCHANGED <<s_handled, s_printed, SOthers>>

\* BaseLogger.accept(action, dic, instance) for the next record
SAccept ==
    /\ s_pc = "started"
    /\ s_handled < MaxLogged
    /\ \E action \in GenerationStatus : s_counter' = accept(s_counter, action)
    /\ s_handled' = s_handled + 1
    /\ UNCHANGED <<s_pc, s_printed, SOthers>>

\* StdoutLogger.reject(msg) for the next record: BaseLogger.reject first,
\* then the line with self.counter.pos; record is the position of the
\* rejected record in the stream, counted from 1
SReject ==
    /\ s_pc = "started"
    /\ s_handled < MaxLogged
    /\ s_counter' = c_reject(s_counter)
    /\ \E msg \in Messages :
          s_printed' = Append(s_printed,
                              [kind |-> "reject", row |-> s_counter'.pos,
                               msg |-> msg, record |-> s_handled + 1])
    /\ s_handled' = s_handled + 1
    /\ UNCHANGED <<s_pc, SOthers>>

\* BaseLogger.skip for the next record
SSkip ==
    /\ s_pc = "started"
    /\ s_handled < MaxLogged
    /\ s_counter' = c_next(s_counter)
    /\ s_handled' = s_handled + 1
    /\ UNCHANGED <<s_pc, s_printed, SOthers>>

\* StdoutLogger.finish: the summary
SFinish ==
    /\ s_pc = "started"
    /\ s_pc' = "finished"
    /\ s_printed' = Append(s_printed,
                           [kind |-> "summary",
                            created |-> s_counter.created,
                            updated |-> s_counter.updated,
                            rejected |-> s_counter.rejected])
    /\ UNCHANGED <<s_counter, s_handled, SOthers>>

-----------------------------------------------------------------------------
(* etl_sync/types.py: CaseInsensitiveDict *)

\* str.lower on the letters used here; a key is a sequence of letters
lower_letter(c) == IF c = "A" THEN "a" ELSE IF c = "B" THEN "b" ELSE c
lower(key) == [i \in DOMAIN key |-> lower_letter(key[i])]

\* dict((k.lower(), v) for k, v in dic.items())
RECURSIVE lowered_from(_, _, _)
lowered_from(dic, res, i) ==
    IF i > Len(dic) THEN res
    ELSE lowered_from(dic, SetItem(res, lower(dic[i][1]), dic[i][2]), i + 1)
lowered(dic) == lowered_from(dic, <<>>, 1)

\* what a call gives: the exception, the return value (0 for None) and
\* the entries afterwards
Returned(val, items) == [exc |-> "none", val |-> val, items |-> items]
Raised(e, items) == [exc |-> e, val |-> 0, items |-> items]

\* CaseInsensitiveDict.__init__(dic=None, **kwargs); arg.given is FALSE
\* for dic=None.  dict.__init__(None) raises TypeError.
__init__(arg, kwargs) ==
    IF arg.given /\ arg.d # <<>> THEN Returned(0, lowered(arg.d))
    ELSE IF arg.given THEN Returned(0, <<>>)
    ELSE Raised("TypeError", <<>>)

__contains__(items, key) == Has(items, lower(key))

__getitem__(items, key) ==
    IF Has(items, lower(key)) THEN Returned(Get(items, lower(key)), items)
    ELSE Raised("KeyError", items)

__setitem__(items, key, value) ==
    Returned(0, SetItem(items, lower(key), value))

__delitem__(items, key) ==
    IF Has(items, lower(key)) THEN Returned(0, DelItem(items, lower(key)))
    ELSE Raised("KeyError", items)

get(items, key, default) ==
    IF Has(items, lower(key)) THEN Returned(Get(items, lower(key)), items)
    ELSE Returned(default, items)

pop(items, key, default) ==
    IF Has(items, lower(key))
    THEN Returned(Get(items, lower(key)), DelItem(items, lower(key)))
    ELSE Returned(default, items)

setdefault(items, key, default) ==
    IF Has(items, lower(key)) THEN Returned(Get(items, lower(key)), items)
    ELSE Returned(default, SetItem(items, lower(key), default))

update(items, dic, kwargs) ==
    Returned(0, Update(items, Update(lowered(dic), lowered(kwargs))))

\* keys in both casings, values, and the mappings given to the calls
DKeys == {<<"a">>, <<"A">>, <<"b">>, <<"B">>}
DValues == {1, 2}
MaxItems == 2
MaxOps == 3
DDicts == DictsOver(DKeys, DValues, MaxItems)
DKwargs == DictsOver(DKeys, DValues, 1)
NoCall == [name |-> "none", exc |-> "none", val |-> 0]
Call(name, r) == [name |-> name, exc |-> r.exc, val |-> r.val]

DInit ==
    /\ d_pc = "new"
    /\ d_arg \in [dic : {[given |-> FALSE, d |-> <<>>]}
                        \cup {[given |-> TRUE, d |-> x] : x \in DDicts},
                  kwargs : DKwargs]
    /\ d_items = <<>>
    /\ d_ret = NoCall
    /\ d_ops = 0

DIdle ==
    /\ d_pc = "idle"
    /\ d_arg = <<>>
    /\ d_items = <<>>
    /\ d_ret = NoCall
    /\ d_ops = 0

DOthers == <<tvars, lvars, mvars, svars>>

\* CaseInsensitiveDict(dic, **kwargs)
DConstruct ==
    /\ d_pc = "new"
    /\ LET r == __init__(d_arg.dic, d_arg.kwargs)
       IN  /\ d_pc' = IF r.exc = "none" THEN "ready" ELSE "failed"
           /\ d_items' = r.items
           /\ d_ret' = Call("__init__", r)
    /\ d_arg' = <<>>
    /\ UNCHANGED <<d_ops, DOthers>>

\* a call on the constructed dict
DCall(name, r) ==
    /\ d_pc = "ready"
    /\ d_ops < MaxOps
    /\ d_items' = r.items
    /\ d_ret' = Call(name, r)
    /\ d_ops' = d_ops + 1
    /\ UNCHANGED <<d_pc, d_arg, DOthers>>

DSetItem ==
    \E key \in DKeys, value \in DValues :
        DCall("__setitem__", __setitem__(d_items, key, value))

DSetDefault ==
    \E key \in DKeys, default \in DValues \cup {0} :
        DCall("setdefault", setdefault(d_items, key, default))

DUpdate ==
    \E dic \in DDicts, kwargs \in DKwargs :
        DCall("update", update(d_items, dic, kwargs))

DPop ==
    \E key \in DKeys, default \in DValues \cup {0} :
        DCall("pop", pop(d_items, key, default))

DDelItem ==
    \E key \in DKeys : DCall("__delitem__", __delitem__(d_items, key))

-----------------------------------------------------------------------------
(* etl_sync/loaders.py: FeedbackCounter *)

\* FeedbackCounter.__init__ with the default counter=0
FeedbackCounter == [counter |-> 0, rejected |-> 0, created |-> 0, updated |-> 0]

increment(c) == [c EXCEPT !.counter = @ + 1]
fc_reject(c) == increment([c EXCEPT !.rejected = @ + 1])
fc_create(c) == increment([c EXCEPT !.created = @ + 1])
fc_update(c) == increment([c EXCEPT !.updated = @ + 1])

\* FeedbackCounter.use_result; res is the generator's result dictionary
use_result(c, res) ==
    IF res.created THEN fc_create(c)
    ELSE IF res.updated THEN fc_update(c)
    ELSE increment(c)

\* the res dictionaries of a successful get_instance: created, updated,
\* neither (the instance exists unchanged)
GeneratorResults ==
    {[created |-> TRUE, updated |-> FALSE],
     [created |-> FALSE, updated |-> TRUE],
     [created |-> FALSE, updated |-> FALSE]}

\* the exceptions of get_instance that load() catches
GeneratorErrors == {"ValidationError", "IntegrityError", "DatabaseError"}

-----------------------------------------------------------------------------
(* etl_sync/loaders.py: Logger *)

\* the class attributes of Logger that hold message templates
LoggerAttributes ==
    {"start_message", "reader_error_meassage", "instance_error_message"}

\* self.log(self.<attribute>.format(line, str(error))): the line written,
\* or the AttributeError of the attribute lookup
log_format(attribute, line) ==
    IF attribute \in LoggerAttributes
    THEN Ok(<<attribute, line>>)
    ELSE Raise("AttributeError")

log_reader_error(line) == log_format("reader_error_message", line)

log_transformation_error(line) ==
    log_format("transformation_error_message", line)

\* the same method reading an attribute the class does not define
log_instance_error_undefined(line) ==
    log_format("instance_generation_error_message", line)

log_instance_error(line) == log_format("instance_error_message", line)

-----------------------------------------------------------------------------
(* etl_sync/loaders.py: Loader.load *)

\* most units of a source; slice_begin and slice_end range over 0..MaxRecords
MaxRecords == 3
\* largest feedbacksize
MaxFeedback == 2

\* the transformer_class of the modelled Loader: blacklist = {'a': ['^$']}
LoaderTransformer ==
    [mappings |-> <<>>,
     defaults |-> [type |-> "dict", items |-> <<>>],
     blacklist |-> <<(<<(<<"a">>), <<PatternEmpty>> >>)>>,
     forms |-> <<>>]

\* rows the reader yields: {'a': 'x'}, {'a': ''}, {} ; and a unit the
\* reader cannot decode (UnicodeDecodeError or csv.Error)
Row(d) == [kind |-> "row", row |-> d]
ReaderError == [kind |-> "error", row |-> <<>>]
Units ==
    {Row(<<(<<(<<"a">>), Str(<<"x">>)>>)>>),
     Row(<<(<<(<<"a">>), Str(<<>>)>>)>>),
     Row(<<>>),
     ReaderError}

Sources == UNION {[1..n -> Units] : n \in 0..MaxRecords}

\* extractor.next(): the next unit, its decoding error, or StopIteration
reader_next(src, pos) ==
    IF pos >= Len(src) THEN Raise("StopIteration")
    ELSE IF src[pos + 1].kind = "error" THEN Raise("csv.Error")
    ELSE Ok(src[pos + 1].row)

LInit ==
    /\ source \in Sources
    /\ slice_begin \in 0..MaxRecords
    /\ slice_end \in 0..MaxRecords
    /\ feedbacksize \in 1..MaxFeedback
    /\ pc = "start"
    /\ cursor = 0
    /\ counter = FeedbackCounter
    /\ csv_dic = <<>>
    /\ load_dic = <<>>
    /\ outcome = <<>>
    /\ logged = <<>>
    /\ hooks = <<>>
    /\ raised = "none"
    /\ result = "none"

LIdle ==
    /\ source = <<>>
    /\ slice_begin = 0
    /\ slice_end = 0
    /\ feedbacksize = 1
    /\ pc = "idle"
    /\ cursor = 0
    /\ counter = FeedbackCounter
    /\ csv_dic = <<>>
    /\ load_dic = <<>>
    /\ outcome = <<>>
    /\ logged = <<>>
    /\ hooks = <<>>
    /\ raised = "none"
    /\ result = "none"

\* what load() never assigns
Config == <<source, slice_begin, slice_end, feedbacksize, tvars, ovars>>

\* an exception leaves load()
Escape(e) ==
    /\ raised' = e
    /\ pc' = "raised"

\* lines 222-230: Logger and FeedbackCounter are created, log_start
Start ==
    /\ pc = "start"
    /\ counter' = FeedbackCounter
    /\ logged' = Append(logged, <<"start_message", 0>>)
    /\ pc' = "skip"
    /\ UNCHANGED <<Config, cursor, csv_dic, load_dic, outcome, hooks, raised,
                   result>>

\* line 231
SkipCondition == slice_begin # 0 /\ slice_begin > counter.counter

\* line 234
LoadCondition == slice_end = 0 \/ slice_end >= counter.counter

\* lines 231-233, one iteration: the unit is read and dropped.  Nothing
\* catches what extractor.next() raises here.
Skip ==
    /\ pc = "skip"
    /\ SkipCondition
    /\ LET r == reader_next(source, cursor)
       IN  IF r.exc = "none"
           THEN /\ cursor' = cursor + 1
                /\ outcome' = Append(outcome, "skipped")
                /\ counter' = increment(counter)
                /\ UNCHANGED <<pc, raised>>
           ELSE /\ Escape(r.exc)
                /\ cursor' = IF r.exc = "StopIteration" THEN cursor
                             ELSE cursor + 1
                /\ outcome' = IF r.exc = "StopIteration" THEN outcome
                              ELSE Append(outcome, "skip:escaped")
                /\ UNCHANGED counter
    /\ UNCHANGED <<Config, csv_dic, load_dic, logged, hooks, result>>

\* line 231 false: on to the while of line 234
SkipEnd ==
    /\ pc = "skip"
    /\ ~SkipCondition
    /\ pc' = "load"
    /\ UNCHANGED <<Config, cursor, counter, csv_dic, load_dic, outcome, logged,
                   hooks, raised, result>>

\* line 234 false
LoadEnd ==
    /\ pc = "load"
    /\ ~LoadCondition
    /\ pc' = "finish"
    /\ UNCHANGED <<Config, cursor, counter, csv_dic, load_dic, outcome, logged,
                   hooks, raised, result>>

\* lines 235-243: extractor.next() and its three except clauses
ReadNext ==
    /\ pc = "load"
    /\ LoadCondition
    /\ LET r == reader_next(source, cursor)
       IN  CASE r.exc = "none" ->
                  /\ csv_dic' = r.val
                  /\ cursor' = cursor + 1
                  /\ outcome' = Append(outcome, "pulled")
                  /\ pc' = "transform"
                  /\ UNCHANGED <<counter, logged, raised>>
             [] r.exc = "StopIteration" ->
                  /\ logged' = Append(logged, <<"End of file.", 0>>)
                  /\ pc' = "finish"
                  /\ UNCHANGED <<csv_dic, cursor, outcome, counter, raised>>
             [] OTHER ->
                  LET l == log_reader_error(counter.counter)
                  IN  /\ cursor' = cursor + 1
                      /\ UNCHANGED csv_dic
                      /\ IF l.exc = "none"
                         THEN /\ logged' = Append(logged, l.val)
                              /\ counter' = fc_reject(counter)
                              /\ outcome' = Append(outcome, "reader_error:rejected")
                              /\ UNCHANGED <<pc, raised>>
                         ELSE /\ Escape(l.exc)
                              /\ outcome' = Append(outcome, "reader_error:escaped")
                              /\ UNCHANGED <<logged, counter>>
    /\ UNCHANGED <<Config, load_dic, hooks, result>>

\* the last entry of outcome becomes o
Settle(o) == outcome' = [outcome EXCEPT ![Len(outcome)] = o]

\* lines 244-251
Transform ==
    /\ pc = "transform"
    /\ LET v == is_valid(t_cfg, csv_dic)
       IN  IF v.exc # "none"
           THEN /\ Escape(v.exc)
                /\ Settle("transform:escaped")
                /\ UNCHANGED <<load_dic, logged, counter>>
           ELSE IF v.ret
           THEN /\ load_dic' = v.cleaned_data
                /\ pc' = "generate"
                /\ UNCHANGED <<outcome, logged, counter, raised>>
           ELSE LET l == log_transformation_error(counter.counter)
                IN  IF l.exc = "none"
                    THEN /\ logged' = Append(logged, l.val)
                         /\ counter' = fc_reject(counter)
                         /\ Settle("invalid:rejected")
                         /\ pc' = "load"
                         /\ UNCHANGED <<load_dic, raised>>
                    ELSE /\ Escape(l.exc)
                         /\ Settle("invalid:escaped")
                         /\ UNCHANGED <<load_dic, logged, counter>>
    /\ UNCHANGED <<Config, cursor, csv_dic, hooks, result>>

\* lines 252-256 and 261-265: get_instance succeeds with result res
Generate ==
    /\ pc = "generate"
    /\ \E res \in GeneratorResults :
         LET c == use_result(counter, res)
         IN  /\ counter' = c
             /\ Settle(IF res.created THEN "created"
                       ELSE IF res.updated THEN "updated" ELSE "exists")
             /\ hooks' = IF c.counter % feedbacksize = 0
                         THEN Append(hooks, c.counter)
                         ELSE hooks
    /\ pc' = "load"
    /\ UNCHANGED <<Config, cursor, csv_dic, load_dic, logged, raised, result>>

\* lines 252-260: get_instance raises one of the caught exceptions
GenerateError ==
    /\ pc = "generate"
    /\ \E e \in GeneratorErrors :
         LET l == log_instance_error(counter.counter)
         IN  IF l.exc = "none"
             THEN /\ logged' = Append(logged, l.val)
                  /\ counter' = fc_reject(counter)
                  /\ Settle("store_error:rejected")
                  /\ pc' = "load"
                  /\ UNCHANGED raised
             ELSE /\ Escape(l.exc)
                  /\ Settle("store_error:escaped")
                  /\ UNCHANGED <<logged, counter>>
    /\ UNCHANGED <<Config, cursor, csv_dic, load_dic, hooks, result>>

\* lines 266-268
Finish ==
    /\ pc = "finish"
    /\ logged' = Append(logged, <<"finished", counter.rejected>>)
    /\ result' = "finished"
    /\ pc' = "done"
    /\ UNCHANGED <<Config, cursor, counter, csv_dic, load_dic, outcome, hooks,
                   raised>>

-----
(* Specifications *)

\* a run of Loader.load
Init == LInit /\ t_cfg = LoaderTransformer /\ TIdle /\ MIdle /\ SIdle /\ DIdle
Next ==
    \/ Start
    \/ Skip
    \/ SkipEnd
    \/ LoadEnd
    \/ ReadNext
    \/ Transform
    \/ Generate
    \/ GenerateError
    \/ Finish
Spec == Init /\ [][Next]_vars

\* Transformer.is_valid on one record
InitT == TInit /\ LIdle /\ MIdle /\ SIdle /\ DIdle
NextT ==
    \/ TRemap
    \/ TApplyDefaults
    \/ TCheckBlacklist
    \/ TRemapRelations
    \/ TCleanRelations
    \/ TProcessForms
    \/ TTransform
    \/ TValidate
SpecT == InitT /\ [][NextT]_vars

\* is_valid on the records with dotted names
InitR == RInit /\ LIdle /\ MIdle /\ SIdle /\ DIdle
SpecR == InitR /\ [][NextT]_vars

\* is_valid of a Transformer with forms
InitF == FInit /\ LIdle /\ MIdle /\ SIdle /\ DIdle
SpecF == InitF /\ [][NextT]_vars

\* Transformer.__init__ on one rename specification
EmptyTransformer ==
    [mappings |-> <<>>,
     defaults |-> [type |-> "dict", items |-> <<>>],
     blacklist |-> <<>>,
     forms |-> <<>>]
InitM == MInit /\ LIdle /\ TIdle /\ t_cfg = EmptyTransformer /\ SIdle /\ DIdle
NextM ==
    \/ MBuild
    \/ MBuildAgain
SpecM == InitM /\ [][NextM]_vars

\* a StdoutLogger driven by its caller, one call per record
InitS ==
    SInit /\ LIdle /\ TIdle /\ t_cfg = EmptyTransformer /\ MIdle /\ DIdle
NextS ==
    \/ SStart
    \/ SAccept
    \/ SReject
    \/ SSkip
    \/ SFinish
SpecS == InitS /\ [][NextS]_vars

\* a CaseInsensitiveDict: construction, then calls
InitD ==
    DInit /\ LIdle /\ TIdle /\ t_cfg = EmptyTransformer /\ MIdle /\ SIdle
NextD ==
    \/ DConstruct
    \/ DSetItem
    \/ DSetDefault
    \/ DUpdate
    \/ DPop
    \/ DDelItem
SpecD == InitD /\ [][NextD]_vars

-----------------------------------------------------------------------------
(* Properties of Loader.load, checked under Spec *)

\* the number of yielded units whose outcome is in S
CountOf(S) == Cardinality({i \in DOMAIN outcome : outcome[i] \in S})

Accepted == {"created", "updated", "exists"}
Rejected == {"reader_error:rejected", "invalid:rejected",
             "store_error:rejected"}
Escaped == {"skip:escaped", "reader_error:escaped", "invalid:escaped",
            "transform:escaped", "store_error:escaped"}

\* load() is between two records, or over
AtRest == pc \in {"skip", "load", "finish", "done", "raised"}

\* every unit of the source is a row that is_valid accepts
AllRowsValid ==
    \A i \in DOMAIN source :
        /\ source[i].kind = "row"
        /\ is_valid(t_cfg, source[i].row).exc = "none"
        /\ is_valid(t_cfg, source[i].row).ret

\* C1: a record that transform reports invalid (is_valid returns False)
\* yields one reject line and one increment of rejected, is not handed to
\* get_instance, and load() goes on: no exception leaves load() for it.
C1_InvalidRecordIsRejected ==
    \A i \in DOMAIN outcome : outcome[i] # "invalid:escaped"

\* C2: a failing get_instance (ValidationError, IntegrityError,
\* DatabaseError) never ends the run: it is logged, counted as rejected once
\* and the loop goes on, so that on a source of valid rows the run finishes
\* with every row of the window either accepted or store-rejected and with
\* rejected equal to the number of rows whose get_instance failed.
C2_PersistenceFailureIsolated ==
    /\ \A i \in DOMAIN outcome : outcome[i] # "store_error:escaped"
    /\ counter.rejected = CountOf(Rejected)
    /\ (AllRowsValid /\ slice_begin <= Len(source)) =>
          /\ raised = "none"
          /\ counter.rejected = CountOf({"store_error:rejected"})
          /\ AtRest =>
                \A i \in DOMAIN outcome :
                    outcome[i] \in Accepted \cup {"skipped",
                                                  "store_error:rejected"}
          /\ pc = "done" =>
                /\ result = "finished"
                /\ (slice_end = 0 => cursor = Len(source))

\* C2 witness: a finished run of three rows in which get_instance failed
\* for the second only
C2_Witness ==
    /\ pc = "done"
    /\ outcome = <<"created", "store_error:rejected", "created">>
    /\ counter.rejected = 1
    /\ counter.created = 2

\* C3: a unit the reader cannot decode yields one reject line and one
\* increment of rejected, and load() goes on with the next unit.
C3_ReaderErrorIsRejected ==
    \A i \in DOMAIN outcome : outcome[i] # "reader_error:escaped"

\* C4: with 1 <= slice_begin <= slice_end <= Len(source), a finished run has
\* skipped exactly the units 1..slice_begin-1, has transformed exactly the
\* units slice_begin..slice_end, and has read nothing after slice_end.
C4_WindowIsInclusive ==
    (/\ pc = "done"
     /\ 1 <= slice_begin
     /\ slice_begin <= slice_end
     /\ slice_end <= Len(source))
    => /\ cursor = slice_end
       /\ \A i \in DOMAIN outcome :
             (outcome[i] = "skipped") <=> (i < slice_begin)

\* C5: between records the counter's position is the number of units read
\* so far, each unit being skipped, rejected or accepted, and created,
\* updated and rejected count the units that were created, updated and
\* rejected (a skipped or existing unit counts in none of them).
C5_ProgressAccounting ==
    (AtRest /\ CountOf({"skip:escaped", "transform:escaped"}) = 0) =>
        /\ counter.counter = cursor
        /\ counter.created = CountOf({"created"})
        /\ counter.updated = CountOf({"updated"})
        /\ counter.rejected =
              CountOf(Rejected \cup {"reader_error:escaped",
                                     "invalid:escaped",
                                     "store_error:escaped"})

\* C6: feedback and feedback_hook have run once for every multiple of
\* feedbacksize that the number of settled (accepted or rejected) records
\* has reached, whether an accepted or a rejected record reached it.
C6_CheckpointEveryFeedbacksize ==
    AtRest =>
        Len(hooks) = CountOf(Accepted \cup Rejected) \div feedbacksize

\* C7: the end of the source never ends load() with an error, in the skip
\* loop or in the main loop.
C7_EndOfSourceIsNoError ==
    raised # "StopIteration"

-----------------------------------------------------------------------------
(* Properties of Transformer, checked under SpecT *)

\* some pattern of the blacklist matches the string in its field
Blacklisted(blacklist, d) ==
    \E i \in DOMAIN blacklist :
        /\ Has(d, blacklist[i][1])
        /\ Get(d, blacklist[i][1]).t = "str"
        /\ \E j \in DOMAIN blacklist[i][2] :
              re_match(blacklist[i][2][j], Get(d, blacklist[i][1]).s)

\* every blacklisted field that the record has holds a string
BlacklistedFieldsAreStrings(blacklist, d) ==
    \A i \in DOMAIN blacklist :
        Has(d, blacklist[i][1]) => Get(d, blacklist[i][1]).t = "str"

\* C8: after check_blacklist, a record with a matching blacklisted field is
\* rejected (is_valid returns False); a record in which no blacklisted field
\* matches, the field being absent included, goes on to the next stage
\* unchanged.
C8_Blacklist ==
    (t_last = "blacklist" /\ BlacklistedFieldsAreStrings(t_cfg.blacklist, t_dic))
    => IF Blacklisted(t_cfg.blacklist, t_dic)
       THEN t_pc = "false"
       ELSE t_pc = "relations"

\* C9: after remap and _apply_defaults every key of defaults holds the
\* default value, and every other key is as remap left it.
C9_DefaultsOverwrite ==
    t_last = "defaults" =>
        /\ \A k \in Keys(t_cfg.defaults.items) :
              /\ Has(t_dic, k)
              /\ Get(t_dic, k) = Get(t_cfg.defaults.items, k)
        /\ \A k \in FieldNames \ Keys(t_cfg.defaults.items) :
              /\ Has(t_dic, k) <=> Has(t_remapped, k)
              /\ Has(t_dic, k) => Get(t_dic, k) = Get(t_remapped, k)

\* C9 witness: defaults have been applied to a record that already held
\* another value in a defaulted field
C9_Witness ==
    /\ t_last = "defaults"
    /\ \E k \in Keys(t_cfg.defaults.items) :
          /\ Has(t_remapped, k)
          /\ Get(t_remapped, k) # Get(t_cfg.defaults.items, k)

\* C10: remap of a record that lacks a source key of the mappings ends in a
\* ValidationError, so is_valid returns False.
C10_MissingSourceIsValidationError ==
    (/\ t_last = "remap"
     /\ \E i \in DOMAIN t_cfg.mappings : ~Has(t_raw, t_cfg.mappings[i][2]))
    => /\ t_pc = "false"
       /\ t_raised = "none"

\* C11: is_valid never raises: it returns True with cleaned_data set or
\* False with the error recorded, whatever stage fails.
C11_IsValidNeverRaises ==
    /\ t_pc # "raised"
    /\ t_raised = "none"

\* C16: after remap of a record that has every source key, each entry
\* (key, m_key) of the mappings satisfies data[key] = raw[m_key], a swap
\* such as a <- b, b <- a included.
C16_RemapPostcondition ==
    (/\ t_last = "remap"
     /\ \A i \in DOMAIN t_cfg.mappings : Has(t_raw, t_cfg.mappings[i][2]))
    => /\ t_pc = "defaults"
       /\ \A i \in DOMAIN t_cfg.mappings :
             /\ Has(t_remapped, t_cfg.mappings[i][1])
             /\ Get(t_remapped, t_cfg.mappings[i][1])
                   = Get(t_raw, t_cfg.mappings[i][2])

-----------------------------------------------------------------------------
(* Properties of _flatten_mappings, checked under SpecM *)

\* no value of the specification is a dictionary
IsFlat(d) == \A i \in DOMAIN d : ~IsDict(d[i][2])

\* C14: flattening the table that __init__ built gives that table again, a
\* flat specification is its own table, and the class attribute is as it
\* was written.
C14_FlattenIdempotent ==
    /\ m_pc = "rebuilt" => m_again = m_table
    /\ (m_pc \in {"built", "rebuilt"} /\ IsFlat(m_given)) => m_table = m_given
    /\ m_pc \in {"built", "rebuilt"} => (IsFlat(m_table) /\ m_spec = m_given)

\* C14 witness: a specification with a nested entry has been flattened twice
C14_Witness ==
    /\ m_pc = "rebuilt"
    /\ ~IsFlat(m_given)
    /\ m_table # <<>>

\* C19: _flatten_mappings returns for every specification, one with an
\* empty nested dictionary included.
C19_FlattenReturns ==
    /\ m_pc # "raised"
    /\ m_raised = "none"

-----------------------------------------------------------------------------
(* Properties of the relation stages, checked under SpecR *)

\* no value of the record is a dictionary
FlatRecord(d) == \A i \in DOMAIN d : ~IsDict(d[i][2])

\* the names with a truthy value
TruthyNames(d) == {k \in Keys(d) : Truthy(Get(d, k))}

\* the tree has a value at the location given by the segments of path
RECURSIVE HasPath(_, _)
HasPath(tree, path) ==
    IF Len(path) = 1 THEN Has(tree, path)
    ELSE /\ Has(tree, <<path[1]>>)
         /\ IsDict(Get(tree, <<path[1]>>))
         /\ HasPath(Get(tree, <<path[1]>>).d, Tail(path))

RECURSIVE Lookup(_, _)
Lookup(tree, path) ==
    IF Len(path) = 1 THEN Get(tree, path)
    ELSE Lookup(Get(tree, <<path[1]>>).d, Tail(path))

\* the paths of the leaves of the tree
RECURSIVE LeafPaths(_)
LeafPaths(tree) ==
    UNION {IF IsDict(tree[i][2])
           THEN {tree[i][1] \o q : q \in LeafPaths(tree[i][2].d)}
           ELSE {tree[i][1]}
           : i \in DOMAIN tree}

\* no falsy leaf and no empty mapping at any depth
RECURSIVE Pruned(_)
Pruned(tree) ==
    \A i \in DOMAIN tree :
        IF IsDict(tree[i][2])
        THEN tree[i][2].d # <<>> /\ Pruned(tree[i][2].d)
        ELSE Truthy(tree[i][2])

\* C12: for a flat record (no defaults configured), _remap_relations and
\* _clean_relations return, and the result is pruned and has exactly the
\* truthy values of the record, each at the location its name gives.
C12_RelationsPruned ==
    (/\ t_last \in {"relations", "clean"}
     /\ t_cfg.defaults.items = <<>>
     /\ FlatRecord(t_remapped))
    => /\ t_pc \in {"clean", "forms"}
       /\ t_last = "clean" =>
            /\ Pruned(t_dic)
            /\ LeafPaths(t_dic) = TruthyNames(t_remapped)
            /\ \A k \in TruthyNames(t_remapped) :
                  HasPath(t_dic, k) /\ Lookup(t_dic, k) = Get(t_remapped, k)

\* C15: the record given to the Transformer has the keys and the values,
\* the contents of nested dictionaries included, that it had when given.
C15_RawRecordUnchanged ==
    t_raw = t_given

-----------------------------------------------------------------------------
(* Properties of _process_forms, checked under SpecF *)

\* the tree has a sub-record (a mapping) at the path name; '' names the
\* whole record
SubRecordAt(tree, name) ==
    name = <<>> \/ (HasPath(tree, name) /\ IsDict(Lookup(tree, name)))

\* the forms bound to the whole record or to a top-level field of it that
\* refuse their sub-record
FailingGroups ==
    {i \in DOMAIN t_cfg.forms :
        /\ Len(t_cfg.forms[i][1]) <= 1
        /\ SubRecordAt(t_dic, t_cfg.forms[i][1])
        /\ ~t_cfg.forms[i][2].is_valid}

\* C13: when forms bound to the record or to a top-level field refuse it,
\* is_valid returns False and self.error has, for every such form and
\* every field of its errors, each of the messages of that form.  (An
\* exception that is no ValidationError is the subject of C11.)
C13_ErrorsOfEveryFailingGroup ==
    (t_last = "forms" /\ t_pc # "raised" /\ FailingGroups # {})
    => /\ t_pc = "false"
       /\ \A i \in FailingGroups :
            LET errors == t_cfg.forms[i][2].errors
            IN  \A j \in DOMAIN errors :
                   /\ Has(t_error, errors[j][1])
                   /\ \A m \in DOMAIN errors[j][2] :
                        \E n \in DOMAIN Get(t_error, errors[j][1]) :
                           Get(t_error, errors[j][1])[n] = errors[j][2][m]

\* C17: once _process_forms has returned, every form whose name is the
\* path of a sub-record accepted it and its cleaned_data is in the
\* sub-record at that path, a name of two segments included.
C17_FormsAppliedAtSubPath ==
    (t_last = "forms" /\ t_pc = "transform")
    => \A i \in DOMAIN t_cfg.forms :
          LET name == t_cfg.forms[i][1]
              frm == t_cfg.forms[i][2]
          IN  SubRecordAt(t_dic, name)
              => /\ frm.is_valid
                 /\ \A j \in DOMAIN frm.cleaned_data :
                      LET k == name \o frm.cleaned_data[j][1]
                      IN  /\ HasPath(t_dic, k)
                          /\ Lookup(t_dic, k) = frm.cleaned_data[j][2]

-----------------------------------------------------------------------------
(* Properties of StdoutLogger, checked under SpecS *)

\* C18: every reject line has, as its row, the position in the stream
\* (counted from 1) of the record that was rejected.
C18_RejectLineHasOwnPosition ==
    \A i \in DOMAIN s_printed :
        s_printed[i].kind = "reject" => s_printed[i].row = s_printed[i].record

-----------------------------------------------------------------------------
(* Properties of CaseInsensitiveDict, checked under SpecD *)

\* every stored key is lowercase
StoredKeysAreLowercase == \A k \in Keys(d_items) : lower(k) = k

\* containment, lookup, get, pop and deletion do the same for two casings
\* of a key
SameForEveryCasing ==
    \A k1 \in DKeys, k2 \in DKeys :
        lower(k1) = lower(k2)
        => /\ __contains__(d_items, k1) = __contains__(d_items, k2)
           /\ __getitem__(d_items, k1) = __getitem__(d_items, k2)
           /\ get(d_items, k1, 0) = get(d_items, k2, 0)
           /\ pop(d_items, k1, 0) = pop(d_items, k2, 0)
           /\ __delitem__(d_items, k1) = __delitem__(d_items, k2)

\* C20: the constructor returns, with or without an initial mapping, and
\* from then on every stored key is lowercase and every casing of a key
\* is treated alike.
C20_CaseInsensitive ==
    /\ d_pc # "failed"
    /\ d_pc = "ready" => (StoredKeysAreLowercase /\ SameForEveryCasing)

====
